---------------------------- MODULE Spec2Model ----------------------------
(***************************************************************************)
(* Model of the KLayout pin tool (iic-jku/klayout-pin-tool).               *)
(*                                                                         *)
(*   pymacros/pin_pdk_info.py    NamedLayerGroup, PinLayerInfo,            *)
(*                               PinPDKInfo, PinPDKInfoFactory             *)
(*   pymacros/pin_tool_plugin.py PinToolConfig, PinToolPlugin              *)
(*                                                                         *)
(* Python values are modelled as follows: a str is a TLA+ string, a list   *)
(* is a sequence, a dataclass instance is a record with the dataclass'     *)
(* field names, a dict is a sequence of <<key, value>> pairs in insertion  *)
(* order (or a function where only lookups matter), None is the record     *)
(* None.  Results of calls are wrapped in a record with a "kind" field so  *)
(* that values of different Python types can be held by one variable.      *)
(***************************************************************************)
EXTENDS Integers, Sequences, FiniteSets, TLC

VARIABLES
    table,        \* the PinPDKInfo instance the table operations are called on
    call,         \* the last call made: [op, arg]
    ret,          \* what the last call returned
    fs,           \* the file system: path -> file content
    search_path,  \* the search_path argument of PinPDKInfoFactory
    factory,      \* the PinPDKInfoFactory constructed last
    stdout,       \* what the program has printed
    plugin,       \* the PinToolPlugin instance (fields of self, the setup dock)
    host          \* the host application: technology, view layers, shapes, config, deferred calls, open transactions, placements made

vars == <<table, call, ret, fs, search_path, factory, stdout, plugin, host>>

-----------------------------------------------------------------------------
(* Bounds of the model                                                     *)

\* the longest `layers` list of a NamedLayerGroup that is enumerated
MaxLayers == 2

\* the longest search_path given to PinPDKInfoFactory
MaxSearchPath == 2

\* the number of placements followed: left clicks that get as far as
\* view.transaction (a click that prompts or fails before it changes nothing
\* that lasts, and may be repeated)
MaxPlacements == 2

\* the most callbacks EventLoop.defer holds at a time
MaxDeferred == 2

-----------------------------------------------------------------------------
(* Generic helpers                                                         *)

Elems(s) == {s[i] : i \in 1..Len(s)}

SeqsUpTo(S, n) == UNION {[1..k -> S] : k \in 0..n}

\* the sequences over S without repetition (every order of every subset)
DistinctSeqs(S) ==
    {s \in SeqsUpTo(S, Cardinality(S)) :
        \A i, j \in 1..Len(s) : i # j => s[i] # s[j]}

\* Python's list(set): every element once, in an order Python's string
\* hashing decides (it differs from run to run): every order is possible.
ListsOf(S) == {s \in [1..Cardinality(S) -> S] : Elems(s) = S}

None == [kind |-> "None"]


-----------------------------------------------------------------------------
(* pin_pdk_info.py: the dataclasses                                        *)

\* NamedLayerGroup(name, layers)
NamedLayerGroup(name, layers) == [name |-> name, layers |-> layers]

\* PinLayerInfo(short_layer_name, related_layers, pin_layers, label_layers):
\* the last three are lists of group names
PinLayerInfo(short_layer_name, related_layers, pin_layers, label_layers) ==
    [short_layer_name |-> short_layer_name,
     related_layers   |-> related_layers,
     pin_layers       |-> pin_layers,
     label_layers     |-> label_layers]

\* PinPDKInfo(tech_name, layer_group_definitions, pin_layer_infos)
PinPDKInfo(tech_name, layer_group_definitions, pin_layer_infos) ==
    [tech_name               |-> tech_name,
     layer_group_definitions |-> layer_group_definitions,
     pin_layer_infos         |-> pin_layer_infos]

-----------------------------------------------------------------------------
(* PinPDKInfo: the queries                                                 *)

\* [g for g in self.layer_group_definitions if g.name in names]
layer_groups_drop_filter(self, names) == self.layer_group_definitions

layer_groups_in_names_order(self, names) ==
    LET RECURSIVE Collect(_)
        Collect(i) ==
            IF i > Len(names) THEN <<>>
            ELSE SelectSeq(self.layer_group_definitions,
                           LAMBDA g : g.name = names[i]) \o Collect(i + 1)
    IN  Collect(1)

layer_groups(self, names) ==
    SelectSeq(self.layer_group_definitions, LAMBDA g : g.name \in Elems(names))

\* [l for g in layer_groups for l in g.layers]: the layers of the groups,
\* concatenated in order, repetitions kept
RECURSIVE FlatLayers(_)
FlatLayers(groups) ==
    IF groups = <<>> THEN <<>>
    ELSE Head(groups).layers \o FlatLayers(Tail(groups))

\* layers_of_groups: list(set([...])).  The value is the set of the lists
\* the call can return: one list per order of the deduplicated layers.
layers_of_groups_no_set(self, names) == {FlatLayers(layer_groups(self, names))}

layers_of_groups(self, names) ==
    ListsOf(Elems(FlatLayers(layer_groups(self, names))))

\* pin_layer_info: one pass over pin_layer_infos; each entry is tested for
\* its short name and then for its expanded groups before the next entry is
\* looked at.  Falling off the loop returns None.
RECURSIVE pin_layer_info_loop(_, _, _)
pin_layer_info_loop(self, related_layer, i) ==
    IF i > Len(self.pin_layer_infos) THEN None
    ELSE LET pli == self.pin_layer_infos[i]
         IN  IF related_layer = pli.short_layer_name
             THEN [kind |-> "PinLayerInfo", pli |-> pli]
             ELSE IF \E related_layers \in
                        layers_of_groups(self, pli.related_layers
                                               \o pli.pin_layers
                                               \o pli.label_layers) :
                        related_layer \in Elems(related_layers)
             THEN [kind |-> "PinLayerInfo", pli |-> pli]
             ELSE pin_layer_info_loop(self, related_layer, i + 1)

\* pin_layer_info as it would be with the scan keeping the last match
RECURSIVE pin_layer_info_last_loop(_, _, _)
pin_layer_info_last_loop(self, related_layer, i) ==
    IF i < 1 THEN None
    ELSE LET pli == self.pin_layer_infos[i]
         IN  IF \/ related_layer = pli.short_layer_name
                \/ \E related_layers \in
                        layers_of_groups(self, pli.related_layers
                                               \o pli.pin_layers
                                               \o pli.label_layers) :
                        related_layer \in Elems(related_layers)
             THEN [kind |-> "PinLayerInfo", pli |-> pli]
             ELSE pin_layer_info_last_loop(self, related_layer, i - 1)

pin_layer_info_last_match(self, related_layer) ==
    pin_layer_info_last_loop(self, related_layer, Len(self.pin_layer_infos))

\* pin_layer_info as it would be with a fallback to the first entry
pin_layer_info_fallback(self, related_layer) ==
    LET found == pin_layer_info_loop(self, related_layer, 1)
    IN  IF found = None /\ self.pin_layer_infos # <<>>
        THEN [kind |-> "PinLayerInfo", pli |-> self.pin_layer_infos[1]]
        ELSE found

pin_layer_info(self, related_layer) == pin_layer_info_loop(self, related_layer, 1)

-----------------------------------------------------------------------------
(* The tables and arguments the queries are checked on                     *)

LayerNames == {"Metal1", "Metal1.pin"}

GroupNames == {"Metal1.Layers", "Metal2.Layers"}

ShortNames == {"Metal1", "Metal2"}

TechNames == {"sg13g2", "sky130A"}

\* a group name and a layer name that no enumerated table declares
UndeclaredGroup == "Via1.Layers"

UndeclaredLayer == "Via1.drawing"

LayerLists == SeqsUpTo(LayerNames, MaxLayers)

Groups == {NamedLayerGroup(n, ls) : n \in GroupNames, ls \in LayerLists}

\* layer_group_definitions: group names unique within a table
GroupLists == {gs \in SeqsUpTo(Groups, Cardinality(GroupNames)) :
                  \A i, j \in 1..Len(gs) : i # j => gs[i].name # gs[j].name}

\* the group-name lists of a PinLayerInfo
RefLists == SeqsUpTo(GroupNames, 1)

PinLayerInfos ==
    {PinLayerInfo(n, r, p, l) :
        n \in ShortNames, r \in RefLists,
        p \in RefLists \ {<<>>}, l \in RefLists \ {<<>>}}

\* pin_layer_infos: short names unique within a table
InfoLists == {ps \in SeqsUpTo(PinLayerInfos, Cardinality(ShortNames)) :
                 \A i, j \in 1..Len(ps) :
                     i # j => ps[i].short_layer_name # ps[j].short_layer_name}

\* the `names` arguments: the declared names and an undeclared one, in
\* every order
NameLists == DistinctSeqs(GroupNames \cup {UndeclaredGroup})

QueryLayers == LayerNames \cup ShortNames \cup {UndeclaredLayer}

-----------------------------------------------------------------------------
(* Calls of the PinPDKInfo queries on a loaded table                       *)

NoCall == [op |-> "none"]

\* the parts of the state a specification does not use
TableIdle == table = PinPDKInfo("", <<>>, <<>>) /\ call = NoCall /\ ret = None

FilesIdle == fs = <<>> /\ search_path = <<>> /\ factory = None /\ stdout = <<>>

PluginIdle == plugin = None /\ host = None

\* tables whose groups vary; no pin layer infos
GroupTables == {PinPDKInfo("sg13g2", gs, <<>>) : gs \in GroupLists}

\* tables whose groups and pin layer infos vary
ResolveTables == {PinPDKInfo("sg13g2", gs, ps) : gs \in GroupLists, ps \in InfoLists}

CallLayerGroups ==
    /\ \E names \in NameLists :
          /\ call' = [op |-> "layer_groups", names |-> names]
          /\ ret' = [kind |-> "groups", groups |-> layer_groups(table, names)]
    /\ UNCHANGED <<table, fs, search_path, factory, stdout, plugin, host>>

CallLayersOfGroups ==
    /\ \E names \in NameLists :
          /\ call' = [op |-> "layers_of_groups", names |-> names]
          /\ \E layers \in layers_of_groups(table, names) :
                ret' = [kind |-> "layers", layers |-> layers]
    /\ UNCHANGED <<table, fs, search_path, factory, stdout, plugin, host>>

CallPinLayerInfo ==
    /\ \E related_layer \in QueryLayers :
          /\ call' = [op |-> "pin_layer_info", related_layer |-> related_layer]
          /\ ret' = pin_layer_info(table, related_layer)
    /\ UNCHANGED <<table, fs, search_path, factory, stdout, plugin, host>>

InitGroups ==
    /\ table \in GroupTables
    /\ call = NoCall
    /\ ret = None
    /\ FilesIdle
    /\ PluginIdle

NextGroups == CallLayerGroups \/ CallLayersOfGroups

SpecGroups == InitGroups /\ [][NextGroups]_vars

InitResolve ==
    /\ table \in ResolveTables
    /\ call = NoCall
    /\ ret = None
    /\ FilesIdle
    /\ PluginIdle

NextResolve == CallPinLayerInfo

SpecResolve == InitResolve /\ [][NextResolve]_vars

-----------------------------------------------------------------------------
(* What the claims speak of, stated without the operators above            *)

\* the layers declared in any group of T
AllLayers(T) ==
    UNION {Elems(T.layer_group_definitions[i].layers) :
               i \in 1..Len(T.layer_group_definitions)}

\* the positions of the groups of T whose name is in the set S
MatchingGroups(T, S) ==
    {i \in 1..Len(T.layer_group_definitions) : T.layer_group_definitions[i].name \in S}

\* the layers that belong to at least one group of T whose name is in S
LayersIn(T, S) ==
    {l \in AllLayers(T) :
        \E i \in MatchingGroups(T, S) : l \in Elems(T.layer_group_definitions[i].layers)}

\* the groups a PinLayerInfo names: related, pin and label groups
GroupsOf(pli) ==
    Elems(pli.related_layers) \cup Elems(pli.pin_layers) \cup Elems(pli.label_layers)

\* the positions of the entries of T whose short name is L
NamedEntries(T, L) ==
    {i \in 1..Len(T.pin_layer_infos) : T.pin_layer_infos[i].short_layer_name = L}

\* the positions of the entries of T whose expanded groups contain L
ExpandingEntries(T, L) ==
    {i \in 1..Len(T.pin_layer_infos) : L \in LayersIn(T, GroupsOf(T.pin_layer_infos[i]))}

Min(S) == CHOOSE x \in S : \A y \in S : x <= y

Returned(pli) == [kind |-> "PinLayerInfo", pli |-> pli]

-----------------------------------------------------------------------------
(* Claims on pin_layer_info (SpecResolve)                                  *)

\* C1: for every entry p of the table, pin_layer_info(p.short_layer_name)
\* returns p, also when an entry stored before p has a group that contains
\* a layer named like p.
C1_ExactNameWins ==
    call.op = "pin_layer_info" =>
        \A i \in NamedEntries(table, call.related_layer) :
            ret = Returned(table.pin_layer_infos[i])

\* C5: a layer that is no entry's short name and in no group of the table
\* resolves to None.
C5_UnknownLayerIsNone ==
    (/\ call.op = "pin_layer_info"
     /\ NamedEntries(table, call.related_layer) = {}
     /\ call.related_layer \notin AllLayers(table))
        => ret = None

\* C5 witness: a table with entries and declared layers was asked for a
\* layer it does not know and answered None.
C5_Witness ==
    /\ call.op = "pin_layer_info"
    /\ Len(table.pin_layer_infos) = 2
    /\ AllLayers(table) = LayerNames \ {call.related_layer}
    /\ call.related_layer \in LayerNames
    /\ NamedEntries(table, call.related_layer) = {}
    /\ \A i \in 1..2 : LayersIn(table, GroupsOf(table.pin_layer_infos[i])) # {}
    /\ ret = None

\* C9: when no entry's short name is the queried layer, pin_layer_info
\* returns the first entry, in stored order, whose related, pin and label
\* groups expand to a set containing the layer (None when there is none).
C9_FirstExpansionWins ==
    (call.op = "pin_layer_info" /\ NamedEntries(table, call.related_layer) = {})
        => LET hits == ExpandingEntries(table, call.related_layer)
           IN  ret = IF hits = {} THEN None
                     ELSE Returned(table.pin_layer_infos[Min(hits)])

\* C9 witness: the layer is in the expansions of both entries, only through
\* the label groups of the first, and the first entry was returned.
C9_Witness ==
    /\ call.op = "pin_layer_info"
    /\ NamedEntries(table, call.related_layer) = {}
    /\ ExpandingEntries(table, call.related_layer) = {1, 2}
    /\ call.related_layer \notin
           LayersIn(table, Elems(table.pin_layer_infos[1].related_layers)
                           \cup Elems(table.pin_layer_infos[1].pin_layers))
    /\ ret = Returned(table.pin_layer_infos[1])

-----------------------------------------------------------------------------
(* Claims on layer_groups and layers_of_groups (SpecGroups)                *)

\* C6: layers_of_groups returns only layers declared in some group of the
\* table, and returns the empty list when names is empty or holds no name
\* of a group of the table.
C6_SubsetAndEmpty ==
    call.op = "layers_of_groups" =>
        /\ Elems(ret.layers) \subseteq AllLayers(table)
        /\ MatchingGroups(table, Elems(call.names)) = {} => ret.layers = <<>>

\* C6 witness: a table that declares layers was asked for a name it does
\* not define and returned the empty list.
C6_Witness ==
    /\ call.op = "layers_of_groups"
    /\ call.names = <<UndeclaredGroup>>
    /\ AllLayers(table) = LayerNames
    /\ ret.layers = <<>>

\* C7: layers_of_groups returns exactly the layers of the groups whose name
\* is in names, each of them once.
C7_ExactlyOnce ==
    call.op = "layers_of_groups" =>
        /\ Elems(ret.layers) = LayersIn(table, Elems(call.names))
        /\ \A i, j \in 1..Len(ret.layers) : i # j => ret.layers[i] # ret.layers[j]

\* C7 witness: a layer listed twice in one matching group and again in a
\* second matching group is returned once.
C7_Witness ==
    /\ call.op = "layers_of_groups"
    /\ Len(table.layer_group_definitions) = 2
    /\ MatchingGroups(table, Elems(call.names)) = {1, 2}
    /\ \E l \in LayerNames :
          /\ table.layer_group_definitions[1].layers = <<l, l>>
          /\ l \in Elems(table.layer_group_definitions[2].layers)
          /\ Len(table.layer_group_definitions[2].layers) = 2
          /\ Elems(table.layer_group_definitions[2].layers) = LayerNames
    /\ Len(ret.layers) = 2

\* C8: layer_groups returns exactly the groups whose name is in names, in
\* the order the table stores them whatever the order of names; names that
\* match no group are ignored; the table is left as it was.
C8_StoredOrder ==
    [][call'.op = "layer_groups" =>
          LET T == table
              I == MatchingGroups(T, Elems(call'.names))
              r == ret'.groups
          IN  /\ table' = T
              /\ Len(r) = Cardinality(I)
              /\ \A i \in I :
                    r[Cardinality({k \in I : k < i}) + 1] = T.layer_group_definitions[i]]_vars

\* C8 witness: names lists two defined groups in the reverse of the stored
\* order together with an undefined name, and both groups came back in the
\* stored order.
C8_Witness ==
    /\ call.op = "layer_groups"
    /\ Len(table.layer_group_definitions) = 2
    /\ Len(call.names) = 3
    /\ call.names[1] = table.layer_group_definitions[2].name
    /\ call.names[2] = UndeclaredGroup
    /\ call.names[3] = table.layer_group_definitions[1].name
    /\ ret.groups = table.layer_group_definitions

-----------------------------------------------------------------------------
(* The declarative file format: write_json and read_json                   *)
(*                                                                         *)
(* A Python object is a record tagged by its type (py): a str, a list or a *)
(* dict whose items keep their insertion order.  A file's text is the      *)
(* sequence of its JSON tokens (white space carries no meaning in JSON and *)
(* is left out).                                                           *)

PyStr(value) == [py |-> "str", value |-> value]

PyList(items) == [py |-> "list", items |-> items]

PyDict(items) == [py |-> "dict", items |-> items]

Item(key, value) == [key |-> key, value |-> value]

PyStrList(strs) == PyList([i \in 1..Len(strs) |-> PyStr(strs[i])])

\* dataclasses.asdict: every dataclass instance becomes a dict of its fields
\* in declaration order, every list a list of the converted elements
asdict_NamedLayerGroup(g) ==
    PyDict(<<Item("name", PyStr(g.name)), Item("layers", PyStrList(g.layers))>>)

asdict_PinLayerInfo(pli) ==
    PyDict(<<Item("short_layer_name", PyStr(pli.short_layer_name)),
             Item("related_layers", PyStrList(pli.related_layers)),
             Item("pin_layers", PyStrList(pli.pin_layers)),
             Item("label_layers", PyStrList(pli.label_layers))>>)

asdict(self) ==
    PyDict(<<Item("tech_name", PyStr(self.tech_name)),
             Item("layer_group_definitions",
                  PyList([i \in 1..Len(self.layer_group_definitions) |->
                             asdict_NamedLayerGroup(self.layer_group_definitions[i])])),
             Item("pin_layer_infos",
                  PyList([i \in 1..Len(self.pin_layer_infos) |->
                             asdict_PinLayerInfo(self.pin_layer_infos[i])]))>>)

Tok(t) == [t |-> t]

StrTok(s) == [t |-> "string", s |-> s]

\* json.dump: a str is written as a string, a list as an array, a dict as an
\* object with its members in insertion order
RECURSIVE json_dump(_), json_dump_items(_, _), json_dump_members(_, _)
json_dump(obj) ==
    CASE obj.py = "str"  -> <<StrTok(obj.value)>>
      [] obj.py = "list" -> <<Tok("[")>> \o json_dump_items(obj.items, 1) \o <<Tok("]")>>
      [] obj.py = "dict" -> <<Tok("{")>> \o json_dump_members(obj.items, 1) \o <<Tok("}")>>

json_dump_items(items, i) ==
    IF i > Len(items) THEN <<>>
    ELSE (IF i > 1 THEN <<Tok(",")>> ELSE <<>>)
         \o json_dump(items[i]) \o json_dump_items(items, i + 1)

json_dump_members(items, i) ==
    IF i > Len(items) THEN <<>>
    ELSE (IF i > 1 THEN <<Tok(",")>> ELSE <<>>)
         \o <<StrTok(items[i].key), Tok(":")>> \o json_dump(items[i].value)
         \o json_dump_members(items, i + 1)

\* json.load: the parse of a text; a text that is no JSON document raises
\* JSONDecodeError.  An object becomes a dict, an array a list.
NoParse == [ok |-> FALSE]

Parsed(value, next) == [ok |-> TRUE, value |-> value, next |-> next]

\* a dict assignment: a repeated key keeps its place and takes the new value
SetItem(items, key, value) ==
    IF \E i \in 1..Len(items) : items[i].key = key
    THEN [i \in 1..Len(items) |->
             IF items[i].key = key THEN Item(key, value) ELSE items[i]]
    ELSE Append(items, Item(key, value))

RECURSIVE parse_value(_, _), parse_items(_, _, _), parse_members(_, _, _)
parse_value(text, i) ==
    IF i > Len(text) THEN NoParse
    ELSE CASE text[i].t = "string" -> Parsed(PyStr(text[i].s), i + 1)
           [] text[i].t = "[" ->
                IF i + 1 <= Len(text) /\ text[i + 1].t = "]"
                THEN Parsed(PyList(<<>>), i + 2)
                ELSE parse_items(text, i + 1, <<>>)
           [] text[i].t = "{" ->
                IF i + 1 <= Len(text) /\ text[i + 1].t = "}"
                THEN Parsed(PyDict(<<>>), i + 2)
                ELSE parse_members(text, i + 1, <<>>)
           [] OTHER -> NoParse

parse_items(text, i, acc) ==
    LET v == parse_value(text, i)
    IN  IF ~v.ok \/ v.next > Len(text) THEN NoParse
        ELSE IF text[v.next].t = ","
             THEN parse_items(text, v.next + 1, Append(acc, v.value))
        ELSE IF text[v.next].t = "]"
             THEN Parsed(PyList(Append(acc, v.value)), v.next + 1)
        ELSE NoParse

parse_members(text, i, acc) ==
    IF i + 1 > Len(text) \/ text[i].t # "string" \/ text[i + 1].t # ":" THEN NoParse
    ELSE LET v == parse_value(text, i + 2)
         IN  IF ~v.ok \/ v.next > Len(text) THEN NoParse
             ELSE IF text[v.next].t = ","
                  THEN parse_members(text, v.next + 1, SetItem(acc, text[i].s, v.value))
             ELSE IF text[v.next].t = "}"
                  THEN Parsed(PyDict(SetItem(acc, text[i].s, v.value)), v.next + 1)
             ELSE NoParse

Raised(what) == [kind |-> "Exception", what |-> what]

json_load(text) ==
    LET v == parse_value(text, 1)
    IN  IF v.ok /\ v.next = Len(text) + 1
        THEN [kind |-> "object", value |-> v.value]
        ELSE Raised("JSONDecodeError")

\* klayout_plugin_utils.dataclass_from_dict: builds the dataclass from a
\* dict by matching its fields by name, lists of dataclasses element by
\* element.  A value that is no dict, or a dict that lacks a field, raises.
HasKey(data, key) == \E i \in 1..Len(data.items) : data.items[i].key = key

Get(data, key) == data.items[CHOOSE i \in 1..Len(data.items) : data.items[i].key = key].value

IsDictWith(data, keys) == data.py = "dict" /\ \A k \in keys : HasKey(data, k)

IsStrList(data) == data.py = "list" /\ \A i \in 1..Len(data.items) : data.items[i].py = "str"

Strs(data) == [i \in 1..Len(data.items) |-> data.items[i].value]

IsGroupDict(data) ==
    /\ IsDictWith(data, {"name", "layers"})
    /\ Get(data, "name").py = "str"
    /\ IsStrList(Get(data, "layers"))

IsInfoDict(data) ==
    /\ IsDictWith(data, {"short_layer_name", "related_layers", "pin_layers", "label_layers"})
    /\ Get(data, "short_layer_name").py = "str"
    /\ IsStrList(Get(data, "related_layers"))
    /\ IsStrList(Get(data, "pin_layers"))
    /\ IsStrList(Get(data, "label_layers"))

IsTableDict(data) ==
    /\ IsDictWith(data, {"tech_name", "layer_group_definitions", "pin_layer_infos"})
    /\ Get(data, "tech_name").py = "str"
    /\ Get(data, "layer_group_definitions").py = "list"
    /\ \A i \in 1..Len(Get(data, "layer_group_definitions").items) :
           IsGroupDict(Get(data, "layer_group_definitions").items[i])
    /\ Get(data, "pin_layer_infos").py = "list"
    /\ \A i \in 1..Len(Get(data, "pin_layer_infos").items) :
           IsInfoDict(Get(data, "pin_layer_infos").items[i])

dataclass_from_dict(data) ==
    IF ~IsTableDict(data) THEN Raised("TypeError")
    ELSE LET gs == Get(data, "layer_group_definitions").items
             ps == Get(data, "pin_layer_infos").items
         IN  [kind |-> "PinPDKInfo",
              pdk_info |->
                PinPDKInfo(Get(data, "tech_name").value,
                           [i \in 1..Len(gs) |->
                               NamedLayerGroup(Get(gs[i], "name").value,
                                               Strs(Get(gs[i], "layers")))],
                           [i \in 1..Len(ps) |->
                               PinLayerInfo(Get(ps[i], "short_layer_name").value,
                                            Strs(Get(ps[i], "related_layers")),
                                            Strs(Get(ps[i], "pin_layers")),
                                            Strs(Get(ps[i], "label_layers")))])]

\* a file of the file system: absent, or present with its text
NoFile == [exists |-> FALSE]

File(text) == [exists |-> TRUE, text |-> text]

\* read_json as it would be with cls(**data) in place of
\* dataclass_from_dict: the nested dicts are not converted
read_json_shallow(files, path) ==
    IF ~files[path].exists THEN Raised("FileNotFoundError")
    ELSE LET data == json_load(files[path].text)
         IN  IF data.kind = "Exception" THEN data
             ELSE IF ~IsTableDict(data.value) THEN Raised("TypeError")
             ELSE [kind |-> "PinPDKInfo",
                   pdk_info |->
                     PinPDKInfo(Get(data.value, "tech_name").value,
                                Get(data.value, "layer_group_definitions").items,
                                Get(data.value, "pin_layer_infos").items)]

\* PinPDKInfo.read_json(path): open, json.load, dataclass_from_dict; the
\* value is the table or the exception raised
read_json(files, path) ==
    IF ~files[path].exists THEN Raised("FileNotFoundError")
    ELSE LET data == json_load(files[path].text)
         IN  IF data.kind = "Exception" THEN data
             ELSE dataclass_from_dict(data.value)

\* PinPDKInfo.write_json(path): the text written to the file
write_json(self) == json_dump(asdict(self))

-----------------------------------------------------------------------------
(* PinPDKInfoFactory                                                       *)

\* A path is the sequence of its parts, <<directory, file name>>.  pathlib
\* compares paths part by part, each part as a string.
StrOrder == <<"a.json", "b.json", "pdks", "pdks-user">>

StrLess(a, b) ==
    \E i, j \in 1..Len(StrOrder) : StrOrder[i] = a /\ StrOrder[j] = b /\ i < j

PathLess(p, q) == StrLess(p[1], q[1]) \/ (p[1] = q[1] /\ StrLess(p[2], q[2]))

\* p.glob('*.json'): the files of directory p (every file name of the model
\* ends in .json); a directory without files gives nothing
glob(files, p) == {f \in DOMAIN files : f[1] = p /\ files[f].exists}

\* sorted(...): ascending by path
RECURSIVE sorted(_)
sorted(paths) ==
    IF paths = {} THEN <<>>
    ELSE LET first == CHOOSE f \in paths : \A g \in paths \ {f} : PathLess(f, g)
         IN  <<first>> \o sorted(paths \ {first})

\* the files as they would be taken without sorted(): directory by
\* directory in search-path order
RECURSIVE json_files_unsorted(_, _)
json_files_unsorted(files, path_list) ==
    IF path_list = <<>> THEN <<>>
    ELSE sorted(glob(files, Head(path_list))) \o json_files_unsorted(files, Tail(path_list))

\* sorted({f for p in search_path for f in p.glob('*.json')})
json_files(files, path_list) ==
    sorted(UNION {glob(files, path_list[i]) : i \in 1..Len(path_list)})

\* the loop of __init__: a file that parses is entered under its tech_name,
\* replacing an earlier entry of that name; an exception is caught, printed
\* with the file's path, and the loop goes on.  The value is the pair of the
\* dict and the lines printed.
RECURSIVE factory_loop(_, _, _, _, _)
factory_loop(files, paths, i, by_tech_name, printed) ==
    IF i > Len(paths) THEN [pdk_infos_by_tech_name |-> by_tech_name, printed |-> printed]
    ELSE LET f == paths[i]
             r == read_json(files, f)
         IN  IF r.kind = "PinPDKInfo"
             THEN factory_loop(files, paths, i + 1,
                               SetItem(by_tech_name, r.pdk_info.tech_name, r.pdk_info),
                               printed)
             ELSE factory_loop(files, paths, i + 1, by_tech_name,
                               Append(printed, [failed |-> f, error |-> r.what]))

\* the loop as it would be without the try: the first exception ends it
RECURSIVE factory_loop_no_try(_, _, _, _, _)
factory_loop_no_try(files, paths, i, by_tech_name, printed) ==
    IF i > Len(paths) THEN [pdk_infos_by_tech_name |-> by_tech_name, printed |-> printed]
    ELSE LET f == paths[i]
             r == read_json(files, f)
         IN  IF r.kind = "PinPDKInfo"
             THEN factory_loop_no_try(files, paths, i + 1,
                                      SetItem(by_tech_name, r.pdk_info.tech_name, r.pdk_info),
                                      printed)
             ELSE [pdk_infos_by_tech_name |-> by_tech_name,
                   printed |-> Append(printed, [failed |-> f, error |-> r.what])]

PinPDKInfoFactory_no_try(files, path_list) ==
    factory_loop_no_try(files, json_files(files, path_list), 1, <<>>, <<>>)

\* PinPDKInfoFactory(search_path)
PinPDKInfoFactory(files, path_list) ==
    factory_loop(files, json_files(files, path_list), 1, <<>>, <<>>)

\* pdk_info(tech_name): self._pdk_infos_by_tech_name.get(tech_name, None)
\* a lookup that falls back to the first table registered
pdk_info_with_default(self, tech_name) ==
    IF HasKey([items |-> self.pdk_infos_by_tech_name], tech_name)
    THEN [kind |-> "PinPDKInfo",
          pdk_info |-> Get([items |-> self.pdk_infos_by_tech_name], tech_name)]
    ELSE IF self.pdk_infos_by_tech_name = <<>> THEN None
    ELSE [kind |-> "PinPDKInfo", pdk_info |-> self.pdk_infos_by_tech_name[1].value]

pdk_info(self, tech_name) ==
    IF HasKey([items |-> self.pdk_infos_by_tech_name], tech_name)
    THEN [kind |-> "PinPDKInfo",
          pdk_info |-> Get([items |-> self.pdk_infos_by_tech_name], tech_name)]
    ELSE None

-----------------------------------------------------------------------------
(* Loading: the files, the search paths, the construction of the factory   *)

Dirs == {"pdks", "pdks-user"}

\* the paths at which a file may exist, as <<directory, file name>>
Paths == {<<"pdks", "a.json">>, <<"pdks", "b.json">>, <<"pdks-user", "a.json">>}

\* the table of the spec's example scenario
Sg13g2Table ==
    PinPDKInfo("sg13g2",
               <<NamedLayerGroup("Metal1.PinLayers", <<"Metal1.pin">>),
                 NamedLayerGroup("Metal1.LabelLayers", <<"Metal1.text">>),
                 NamedLayerGroup("Metal1.RelatedLayers",
                                 <<"Metal1.drawing", "Metal1.pin", "Metal1.text">>)>>,
               <<PinLayerInfo("Metal1", <<"Metal1.RelatedLayers">>,
                              <<"Metal1.PinLayers">>, <<"Metal1.LabelLayers">>)>>)

\* a second table for the same technology
Sg13g2Override ==
    PinPDKInfo("sg13g2",
               <<NamedLayerGroup("Metal1.PinLayers", <<"Metal1.pin">>),
                 NamedLayerGroup("Metal1.LabelLayers", <<"Metal1.label">>)>>,
               <<PinLayerInfo("Metal1", <<>>,
                              <<"Metal1.PinLayers">>, <<"Metal1.LabelLayers">>)>>)

\* a table for another technology
Sky130Table ==
    PinPDKInfo("sky130A",
               <<NamedLayerGroup("met1.PinLayers", <<"met1.pin">>),
                 NamedLayerGroup("met1.LabelLayers", <<"met1.label">>)>>,
               <<PinLayerInfo("met1", <<>>, <<"met1.PinLayers">>, <<"met1.LabelLayers">>)>>)

FileTables == {Sg13g2Table, Sg13g2Override, Sky130Table}

\* a technology no file declares
UndeclaredTech == "gf180mcuD"

\* a file cut short: its last token is missing, so it is no JSON document
Truncated(text) == SubSeq(text, 1, Len(text) - 1)

\* a JSON document that lacks the tech_name member
WithoutTechName(self) ==
    json_dump(PyDict(SelectSeq(asdict(self).items, LAMBDA it : it.key # "tech_name")))

MalformedFiles ==
    {File(Truncated(write_json(Sg13g2Table))), File(WithoutTechName(Sky130Table))}

FileContents == {NoFile} \cup MalformedFiles \cup {File(write_json(T)) : T \in FileTables}

Construct ==
    /\ factory = None
    /\ LET made == PinPDKInfoFactory(fs, search_path)
       IN  /\ factory' = [kind |-> "PinPDKInfoFactory",
                          pdk_infos_by_tech_name |-> made.pdk_infos_by_tech_name]
           /\ stdout' = stdout \o made.printed
    /\ UNCHANGED <<table, call, ret, fs, search_path, plugin, host>>

CallPdkInfo ==
    /\ factory # None
    /\ \E tech_name \in TechNames \cup {UndeclaredTech} :
          /\ call' = [op |-> "pdk_info", tech_name |-> tech_name]
          /\ ret' = pdk_info(factory, tech_name)
    /\ UNCHANGED <<table, fs, search_path, factory, stdout, plugin, host>>

InitLoad ==
    /\ fs \in [Paths -> FileContents]
    /\ search_path \in SeqsUpTo(Dirs, MaxSearchPath)
    /\ factory = None
    /\ stdout = <<>>
    /\ TableIdle
    /\ PluginIdle

NextLoad == Construct \/ CallPdkInfo

SpecLoad == InitLoad /\ [][NextLoad]_vars

-----------------------------------------------------------------------------
(* Claims on PinPDKInfoFactory (SpecLoad)                                  *)

\* the files the search path reaches
Found == {f \in Paths : f[1] \in Elems(search_path) /\ fs[f].exists}

\* what reading each file found gives: its table or the exception
Readings == [f \in Found |-> read_json(fs, f)]

WellFormedIn(readings) == {f \in DOMAIN readings : readings[f].kind = "PinPDKInfo"}

\* the greatest path of a set
LastPath(paths) == CHOOSE f \in paths : \A g \in paths \ {f} : PathLess(g, f)

Keys(self) ==
    {self.pdk_infos_by_tech_name[i].key : i \in 1..Len(self.pdk_infos_by_tech_name)}

\* C3: when several files found declare one tech_name the construction
\* raises nothing and pdk_info(tech_name) is the table of the file with the
\* greatest path, whatever the order (and repetition) of the directories in
\* the search path.
C3_LastPathWins ==
    call.op = "pdk_info" =>
        LET readings  == Readings
            declaring == {f \in WellFormedIn(readings) :
                              readings[f].pdk_info.tech_name = call.tech_name}
        IN  Cardinality(declaring) >= 2
                => /\ factory.kind = "PinPDKInfoFactory"
                   /\ ret = readings[LastPath(declaring)]

\* C3 witness: both directories hold a file for sg13g2 with different
\* tables, the directory with the greater path comes first in the search
\* path, and its file's table was returned.
C3_Witness ==
    /\ call.op = "pdk_info"
    /\ call.tech_name = "sg13g2"
    /\ search_path = <<"pdks-user", "pdks">>
    /\ fs[<<"pdks", "b.json">>] = File(write_json(Sg13g2Table))
    /\ fs[<<"pdks-user", "a.json">>] = File(write_json(Sg13g2Override))
    /\ ret = [kind |-> "PinPDKInfo", pdk_info |-> Sg13g2Override]

\* C4: the construction always completes; the registry's keys are exactly
\* the tech names of the files that parse, and exactly one diagnostic is
\* printed for each file that does not, naming it.
C4_MalformedSkipped ==
    factory # None =>
        LET readings   == Readings
            wellformed == WellFormedIn(readings)
            malformed  == Found \ wellformed
        IN  /\ factory.kind = "PinPDKInfoFactory"
            /\ Keys(factory) = {readings[f].pdk_info.tech_name : f \in wellformed}
            /\ Len(stdout) = Cardinality(malformed)
            /\ {stdout[i].failed : i \in 1..Len(stdout)} = malformed

\* C4 witness: a malformed file is followed, in path order, by a file that
\* parses and by a second malformed file; the registry holds the table of
\* the file that parses and two diagnostics were printed.
C4_Witness ==
    /\ factory # None
    /\ search_path = <<"pdks", "pdks-user">>
    /\ fs[<<"pdks", "a.json">>] = File(Truncated(write_json(Sg13g2Table)))
    /\ fs[<<"pdks", "b.json">>] = File(write_json(Sky130Table))
    /\ fs[<<"pdks-user", "a.json">>] = File(WithoutTechName(Sky130Table))
    /\ Keys(factory) = {"sky130A"}
    /\ Len(stdout) = 2

\* witness of the empty registry: files were found, none parsed
C4_WitnessEmpty ==
    /\ factory # None
    /\ Found # {}
    /\ \A f \in Found : fs[f] \in MalformedFiles
    /\ factory.pdk_infos_by_tech_name = <<>>

-----------------------------------------------------------------------------
(* Writing a table and reading it back (SpecJson)                          *)

\* the file write_json and read_json are called on
JsonPath == <<"pdks", "a.json">>

\* pin layer infos whose three group lists differ from each other
JsonInfoLists ==
    {ps \in InfoLists :
        \A i \in 1..Len(ps) : /\ ps[i].related_layers = <<>>
                              /\ ps[i].pin_layers # ps[i].label_layers}

JsonTables ==
    {PinPDKInfo(t, gs, ps) : t \in TechNames, gs \in GroupLists, ps \in JsonInfoLists}

WriteJson ==
    /\ call' = [op |-> "write_json", path |-> JsonPath]
    /\ ret' = None
    /\ fs' = [fs EXCEPT ![JsonPath] = File(write_json(table))]
    /\ UNCHANGED <<table, search_path, factory, stdout, plugin, host>>

ReadJson ==
    /\ call' = [op |-> "read_json", path |-> JsonPath]
    /\ ret' = read_json(fs, JsonPath)
    /\ UNCHANGED <<table, fs, search_path, factory, stdout, plugin, host>>

InitJson ==
    /\ table \in JsonTables
    /\ call = NoCall
    /\ ret = None
    /\ fs = [f \in Paths |-> NoFile]
    /\ search_path = <<>>
    /\ factory = None
    /\ stdout = <<>>
    /\ PluginIdle

NextJson == WriteJson \/ ReadJson

SpecJson == InitJson /\ [][NextJson]_vars

\* C10: reading back the file that write_json wrote for a table gives a
\* table equal to it: same tech_name, same groups and pin layer infos, same
\* field values, same order in every list.
C10_RoundTrip ==
    (call.op = "read_json" /\ fs[call.path].exists)
        => ret = [kind |-> "PinPDKInfo", pdk_info |-> table]

\* C10 witness: a table with two groups of two layers and two pin layer
\* infos was written and read back.
C10_Witness ==
    /\ call.op = "read_json"
    /\ fs[call.path].exists
    /\ Len(table.layer_group_definitions) = 2
    /\ \A i \in 1..2 : Len(table.layer_group_definitions[i].layers) = 2
    /\ table.layer_group_definitions[1].layers # table.layer_group_definitions[2].layers
    /\ Len(table.pin_layer_infos) = 2
    /\ ret.kind = "PinPDKInfo"

-----------------------------------------------------------------------------
(* pin_tool_plugin.py: the host application as the plugin sees it          *)

\* the directory PinToolPlugin loads from: script_dir / '..' / 'pdks'
PluginSearchPath == <<"pdks">>

\* the files of that directory
PluginFs ==
    [f \in Paths |->
        IF f = <<"pdks", "a.json">> THEN File(write_json(Sg13g2Table))
        ELSE IF f = <<"pdks", "b.json">> THEN File(write_json(Sky130Table))
        ELSE NoFile]

\* PinPDKInfoFactory(search_path) over the files the plugin starts with
PluginFactory == PinPDKInfoFactory(PluginFs, PluginSearchPath)

\* a table for sg13g2 whose entry names two pin groups that share a layer
\* and no label group
Sg13g2PinsOnly ==
    PinPDKInfo("sg13g2",
               <<NamedLayerGroup("Metal1.PinLayers", <<"Metal1.pin">>),
                 NamedLayerGroup("Metal1.TopPinLayers", <<"Metal1.pin", "Metal1.drawing">>)>>,
               <<PinLayerInfo("Metal1", <<>>,
                              <<"Metal1.PinLayers", "Metal1.TopPinLayers">>, <<>>)>>)

\* the files of the directory after the user has edited them: a.json
\* rewritten, b.json deleted
PluginFsEdited ==
    [f \in Paths |->
        IF f = <<"pdks", "a.json">> THEN File(write_json(Sg13g2PinsOnly))
        ELSE NoFile]

\* PinPDKInfoFactory(search_path) over each state of the directory
PluginFactories ==
    [files \in {PluginFs, PluginFsEdited} |-> PinPDKInfoFactory(files, PluginSearchPath)]

\* the layers of the layout, by layer index (position - 1)
LayoutLayers == <<"Metal1.drawing", "Metal1.pin", "Metal1.text", "met1.pin", "met1.label">>

\* the layer the view's layer list has when no real layer is current
NoLayerSource == "*/*@*"

\* layout.technology() is None
NoTechnology == ""

\* the technologies the layout may have: the two the files declare at
\* first (the edited files no longer declare sky130A), or none
PluginTechs == TechNames \cup {NoTechnology}

\* the text of the combo box entry that selects nothing
NoneSelected == "None selected"

\* PinToolConfig() defaults
DefaultPinLabel == "pin_name"

LayoutIndex(name) == (CHOOSE i \in 1..Len(LayoutLayers) : LayoutLayers[i] = name) - 1

\* get_current_layer_name: the name (or source) of the view's current
\* layer, None when it is '*/*@*'
get_current_layer_name(current_layer) ==
    IF current_layer = NoLayerSource THEN None
    ELSE [kind |-> "str", value |-> current_layer]

\* layer_properties_for_layer_name / layer_number_for_layer_name: -1 when the
\* view's layer list has no layer of that name; the layer's index, or, when
\* the list entry has none, the index layout.layer(...) gives
layer_number_for_layer_name(h, name) ==
    IF h.view_layers[name] = "absent" THEN -1
    ELSE LayoutIndex(name)

\* PinToolConfig.load(): the persisted label, or the default
PinToolConfig_load(h) ==
    [short_layer_name |-> None,
     pin_label |-> IF h.config = None THEN DefaultPinLabel ELSE h.config.pin_label]

\* PinToolSetupWidget.set_pdk_info: the combo box is cleared and refilled;
\* its first entry, 'None selected', becomes the current one
set_pdk_info(dock, info) ==
    [dock EXCEPT
        !.items = <<NoneSelected>> \o
                  (IF info = None THEN <<>>
                   ELSE [i \in 1..Len(info.pdk_info.pin_layer_infos) |->
                            info.pdk_info.pin_layer_infos[i].short_layer_name]),
        !.current_text = NoneSelected]

\* PinToolSetupWidget.set_config: setCurrentText selects the entry with that
\* text when there is one
set_config(dock, config) ==
    LET text == IF config.short_layer_name = None THEN NoneSelected
                ELSE config.short_layer_name.value
    IN  [dock EXCEPT
            !.current_text = IF text \in Elems(dock.items) THEN text ELSE @,
            !.pin_value = config.pin_label]

\* a config_from_ui that takes the combo box text as it is
config_from_ui_text(dock) ==
    [short_layer_name |-> [kind |-> "str", value |-> dock.current_text],
     pin_label |-> dock.pin_value]

\* PinToolSetupWidget.config_from_ui
config_from_ui(dock) ==
    [short_layer_name |-> IF dock.current_text = NoneSelected THEN None
                          ELSE [kind |-> "str", value |-> dock.current_text],
     pin_label |-> dock.pin_value]

\* an update_tech whose lookup takes the table out of the registry
update_tech_pop(self, h) ==
    LET info == IF h.tech = NoTechnology THEN None
                ELSE pdk_info(self.pdk_info_factory, h.tech)
        kept == SelectSeq(self.pdk_info_factory.pdk_infos_by_tech_name,
                          LAMBDA item : item.key # h.tech)
    IN  [self EXCEPT
            !.pdk_info = info,
            !.pdk_info_factory.pdk_infos_by_tech_name = kept,
            !.setupDock = IF @ = None THEN @ ELSE set_pdk_info(@, info)]

\* an update_tech that keeps the table it has when the lookup finds none
update_tech_keep(self, h) ==
    LET looked == IF h.tech = NoTechnology THEN None
                  ELSE pdk_info(self.pdk_info_factory, h.tech)
        info   == IF looked = None THEN self.pdk_info ELSE looked
    IN  [self EXCEPT
            !.pdk_info = info,
            !.setupDock = IF @ = None THEN @ ELSE set_pdk_info(@, info)]

\* update_tech: the table of the layout's technology, None without one; the
\* dock, when there is one, is refilled
update_tech(self, h) ==
    LET info == IF h.tech = NoTechnology THEN None
                ELSE pdk_info(self.pdk_info_factory, h.tech)
    IN  [self EXCEPT
            !.pdk_info = info,
            !.setupDock = IF @ = None THEN @ ELSE set_pdk_info(@, info)]

\* insertions that save the preferences after every shape, boxes included
RECURSIVE insert_loop_save_always(_, _, _, _, _, _)
insert_loop_save_always(h, config, layers, i, shape, done) ==
    IF i > Len(layers) THEN done
    ELSE LET lyr == layer_number_for_layer_name(h, layers[i])
         IN  IF lyr = -1
             THEN [done EXCEPT !.raised = Raised(layers[i])]
             ELSE insert_loop_save_always(h, config, layers, i + 1, shape,
                    [done EXCEPT
                        !.shapes[lyr][shape] = @ + 1,
                        !.inserted = Append(@, [layer |-> lyr, shape |-> shape]),
                        !.config = [kind |-> "PinToolConfig",
                                    pin_label |-> config.pin_label]])

\* the insertions of one for loop of commit_place_pin, layer by layer in the
\* order given: a layer without a layer number raises and ends the loop.
\* `done` is the state so far: the layout's shapes, the persisted config,
\* the shapes inserted and the exception raised, if any.
RECURSIVE insert_loop(_, _, _, _, _, _)
insert_loop(h, config, layers, i, shape, done) ==
    IF i > Len(layers) THEN done
    ELSE LET lyr == layer_number_for_layer_name(h, layers[i])
         IN  IF lyr = -1
             THEN [done EXCEPT !.raised = Raised(layers[i])]
             ELSE insert_loop(h, config, layers, i + 1, shape,
                    [done EXCEPT
                        !.shapes[lyr][shape] = @ + 1,
                        !.inserted = Append(@, [layer |-> lyr, shape |-> shape]),
                        !.config = IF shape = "text"
                                   THEN [kind |-> "PinToolConfig",
                                         pin_label |-> config.pin_label]
                                   ELSE @])

\* a placement that draws the box on the label layers too
place_pin_boxes_on_labels(self, h, config, pin_layers, label_layers) ==
    LET start == [shapes |-> h.shapes, config |-> h.config,
                  inserted |-> <<>>, raised |-> None]
        boxes == insert_loop(h, config, pin_layers \o label_layers, 1, "box", start)
    IN  IF boxes.raised # None THEN boxes
        ELSE insert_loop(h, config, label_layers, 1, "text", boxes)

\* the try block of commit_place_pin: the boxes on the pin layers, then the
\* texts on the label layers, config.save() after each text
place_pin(self, h, config, pin_layers, label_layers) ==
    LET start == [shapes |-> h.shapes, config |-> h.config,
                  inserted |-> <<>>, raised |-> None]
        boxes == insert_loop(h, config, pin_layers, 1, "box", start)
    IN  IF boxes.raised # None THEN boxes
        ELSE insert_loop(h, config, label_layers, 1, "text", boxes)

\* a placement whose commit is the last statement of the try block
transaction_calls_commit_in_try(raised) ==
    IF raised = None THEN <<"transaction", "commit">> ELSE <<"transaction">>

\* the calls commit_place_pin makes on the view around the try block:
\* view.transaction before it, view.commit in its finally clause, whether
\* or not the block raised
transaction_calls(raised) == <<"transaction", "commit">>

\* the number of transactions open on the view after the calls
\* commit_place_pin has made on it: view.transaction opens one, view.commit
\* closes one
RECURSIVE open_transactions(_, _)
open_transactions(open, view_calls) ==
    IF view_calls = <<>> THEN open
    ELSE open_transactions(IF Head(view_calls) = "transaction" THEN open + 1
                           ELSE IF open > 0 THEN open - 1 ELSE 0,
                           Tail(view_calls))

\* PinToolSetupWidget(): the dock as it is created
NewDock ==
    [kind |-> "PinToolSetupDock", visible |-> FALSE, items |-> <<NoneSelected>>,
     current_text |-> NoneSelected, pin_value |-> DefaultPinLabel]

-----------------------------------------------------------------------------
(* The plugin's callbacks                                                  *)

\* PinToolPlugin.__init__
NewPlugin ==
    [pdk_info_factory |->
         [kind |-> "PinPDKInfoFactory",
          pdk_infos_by_tech_name |->
              PluginFactory.pdk_infos_by_tech_name],
     pdk_info |-> None,
     pin_layer_info |-> None,
     editor_options |-> None,
     setupDock |-> None]

\* activated: nothing happens while the view is hidden; otherwise the
\* factory is rebuilt, the dock created and shown, navigateToNextTextField
\* deferred, the table of the technology looked up and the view's current
\* layer resolved.  Whether the view is visible and which layer is current
\* are read from the host.  (The keyboard focus the deferred callback moves
\* is not part of the state.)
Activated ==
    /\ ~host.dialog
    /\ ~host.active
    /\ \E view_is_visible \in BOOLEAN :
          IF ~view_is_visible
          THEN /\ host' = [host EXCEPT !.active = TRUE]
               /\ UNCHANGED <<plugin, stdout>>
          ELSE /\ Len(host.deferred) < MaxDeferred
               /\ \E current_layer \in
                     {l \in DOMAIN host.view_layers : host.view_layers[l] # "absent"}
                         \cup {NoLayerSource} :
                     LET made == PluginFactories[fs]
                         self1 == [plugin EXCEPT
                                     !.pdk_info_factory =
                                         [kind |-> "PinPDKInfoFactory",
                                          pdk_infos_by_tech_name |-> made.pdk_infos_by_tech_name],
                                     !.setupDock = [(IF @ = None THEN NewDock ELSE @)
                                                       EXCEPT !.visible = TRUE],
                                     !.editor_options = [kind |-> "EditorOptions"],
                                     !.pin_layer_info = None]
                         self2 == update_tech(self1, host)
                         name  == get_current_layer_name(current_layer)
                         found == IF self2.pdk_info # None /\ name # None
                                  THEN pin_layer_info(self2.pdk_info.pdk_info, name.value)
                                  ELSE None
                         config == [PinToolConfig_load(host) EXCEPT
                                       !.short_layer_name =
                                           IF found # None
                                           THEN [kind |-> "str",
                                                 value |-> found.pli.short_layer_name]
                                           ELSE @]
                     IN  /\ host' = [host EXCEPT
                                       !.active = TRUE,
                                       !.deferred = Append(@, "navigateToNextTextField")]
                         /\ plugin' = [self2 EXCEPT !.pin_layer_info = found,
                                                    !.setupDock = set_config(@, config)]
                         /\ stdout' = stdout \o made.printed
    /\ UNCHANGED <<table, call, ret, fs, search_path, factory>>

\* deactivated
Deactivated ==
    /\ ~host.dialog
    /\ host.active
    /\ host' = [host EXCEPT !.active = FALSE]
    /\ plugin' = [plugin EXCEPT
                    !.pdk_info = None,
                    !.pin_layer_info = None,
                    !.setupDock = IF @ = None THEN @ ELSE [@ EXCEPT !.visible = FALSE]]
    /\ UNCHANGED <<table, call, ret, fs, search_path, factory, stdout>>

\* menu_activated('technology_selector:apply_technology'): technology_applied
\* is deferred; the host then gives the cell view the new technology
MenuActivated ==
    /\ ~host.dialog
    /\ Len(host.deferred) < MaxDeferred
    /\ \E tech \in PluginTechs :
          host' = [host EXCEPT !.deferred = Append(@, "technology_applied"),
                               !.tech = tech]
    /\ UNCHANGED <<table, call, ret, fs, search_path, factory, stdout, plugin>>

\* technology_applied, run by the event loop
TechnologyApplied ==
    /\ host.deferred # <<>>
    /\ Head(host.deferred) = "technology_applied"
    /\ host' = [host EXCEPT !.deferred = Tail(@)]
    /\ plugin' = update_tech(plugin, host)
    /\ UNCHANGED <<table, call, ret, fs, search_path, factory, stdout>>

\* PinToolPlugin.navigateToNextTextField, run by the event loop: it defers
\* the dock's navigateToNextTextField
NavigateToNextTextField ==
    /\ host.deferred # <<>>
    /\ Head(host.deferred) = "navigateToNextTextField"
    /\ host' = [host EXCEPT
                  !.deferred = Append(Tail(@), "setupDock.navigateToNextTextField")]
    /\ UNCHANGED <<table, call, ret, fs, search_path, factory, stdout, plugin>>

\* PinToolSetupDock.navigateToNextTextField, run by the event loop: the
\* keyboard focus moves to the next field of the dock
DockNavigateToNextTextField ==
    /\ host.deferred # <<>>
    /\ Head(host.deferred) = "setupDock.navigateToNextTextField"
    /\ host' = [host EXCEPT !.deferred = Tail(@)]
    /\ UNCHANGED <<table, call, ret, fs, search_path, factory, stdout, plugin>>

\* the user picks an entry of the dock's layer combo box
\* (on_pin_layer_changed writes the same values back)
SelectLayer ==
    /\ ~host.dialog
    /\ plugin.setupDock # None
    /\ plugin.setupDock.visible
    /\ \E text \in Elems(plugin.setupDock.items) :
          plugin' = [plugin EXCEPT !.setupDock.current_text = text]
    /\ UNCHANGED <<table, call, ret, fs, search_path, factory, stdout, host>>

\* show_editor_options, called by a macro: the call of the host's Editor
\* Options menu action is deferred
ShowEditorOptions ==
    /\ ~host.dialog
    /\ Len(host.deferred) < MaxDeferred
    /\ host' = [host EXCEPT !.deferred = Append(@, "call_menu")]
    /\ UNCHANGED <<table, call, ret, fs, search_path, factory, stdout, plugin>>

\* the lambda show_editor_options deferred, run by the event loop:
\* main_window.call_menu('cm_edit_options')
CallMenu ==
    /\ host.deferred # <<>>
    /\ Head(host.deferred) = "call_menu"
    /\ host' = [host EXCEPT !.deferred = Tail(@)]
    /\ UNCHANGED <<table, call, ret, fs, search_path, factory, stdout, plugin>>

\* the user closes the 'Please select a layer first' dialog: mb.exec_()
\* and commit_place_pin return.  While the dialog is open its event loop
\* runs the deferred callbacks, and the host takes no other input.
CloseDialog ==
    /\ host.dialog
    /\ host' = [host EXCEPT !.dialog = FALSE]
    /\ ret' = [kind |-> "prompted", view_calls |-> <<>>]
    /\ UNCHANGED <<table, call, fs, search_path, factory, stdout, plugin>>

\* the user edits the JSON files of the pdks directory while the program runs
EditFiles ==
    /\ fs = PluginFs
    /\ fs' = PluginFsEdited
    /\ UNCHANGED <<table, call, ret, search_path, factory, stdout, plugin, host>>

\* mouse_click_event with the left button: commit_place_pin
LeftClick ==
    /\ ~host.dialog
    /\ host.active
    /\ host.placements < MaxPlacements
    /\ call' = [op |-> "commit_place_pin"]
    /\ IF plugin.editor_options = None \/ plugin.setupDock = None
       THEN \* self.editor_options / self.setupDock is None
            /\ ret' = [kind |-> "propagated", what |-> "AttributeError",
                             view_calls |-> <<>>]
            /\ UNCHANGED <<plugin, stdout, host>>
       ELSE LET config == config_from_ui(plugin.setupDock)
            IN  IF config.short_layer_name = None
                THEN \* 'Please select a layer first': mb.exec_() opens the
                     \* modal dialog; commit_place_pin returns when it closes
                     /\ ret' = [kind |-> "dialog", view_calls |-> <<>>]
                     /\ host' = [host EXCEPT !.dialog = TRUE]
                     /\ UNCHANGED <<plugin, stdout>>
                ELSE IF plugin.pdk_info = None
                THEN \* self.pdk_info.pin_layer_info: self.pdk_info is None
                     /\ ret' = [kind |-> "propagated", what |-> "AttributeError",
                             view_calls |-> <<>>]
                     /\ UNCHANGED <<plugin, stdout, host>>
                ELSE LET T     == plugin.pdk_info.pdk_info
                         found == pin_layer_info(T, config.short_layer_name.value)
                     IN  /\ plugin' = [plugin EXCEPT !.pin_layer_info = found]
                         /\ IF found = None
                            THEN \* self.pin_layer_info.pin_layers inside the try
                                 /\ ret' = [kind |-> "returned", inserted |-> <<>>,
                                            caught |-> Raised("AttributeError"),
                                            view_calls |->
                                                transaction_calls(Raised("AttributeError")),
                                            closed_by |-> "commit"]
                                 /\ stdout' = Append(stdout, [caught |-> "AttributeError"])
                                 /\ host' = [host EXCEPT
                                               !.placements = @ + 1,
                                               !.transactions =
                                                   open_transactions(@,
                                                       transaction_calls(Raised("AttributeError")))]
                            ELSE \E pin_layers \in layers_of_groups(T, found.pli.pin_layers),
                                    label_layers \in layers_of_groups(T, found.pli.label_layers) :
                                   LET done == place_pin(plugin, host, config,
                                                         pin_layers, label_layers)
                                   IN  /\ ret' = [kind |-> "returned",
                                                  inserted |-> done.inserted,
                                                  caught |-> done.raised,
                                                  view_calls |-> transaction_calls(done.raised),
                                                  closed_by |-> "commit"]
                                       /\ stdout' = IF done.raised = None THEN stdout
                                                    ELSE Append(stdout,
                                                                [caught |-> done.raised.what])
                                       /\ host' = [host EXCEPT
                                                     !.placements = @ + 1,
                                                     !.shapes = done.shapes,
                                                     !.config = done.config,
                                                     !.transactions =
                                                         open_transactions(@,
                                                             transaction_calls(done.raised))]
    /\ UNCHANGED <<table, fs, search_path, factory>>

-----------------------------------------------------------------------------
(* The plugin in its host (SpecPlugin)                                     *)

\* the layer lists a view may have: all layers present, Metal1.pin without
\* a layer index in its list entry (layout.layer(...) then gives the
\* index); Metal1.text absent; Metal1.pin absent
ViewLayerChoices ==
    {vl \in [Elems(LayoutLayers) -> {"absent", "indexed", "unindexed"}] :
        /\ <<vl["Metal1.pin"], vl["Metal1.text"]>> \in
              {<<"unindexed", "indexed">>, <<"indexed", "absent">>,
               <<"absent", "indexed">>}
        /\ \A l \in Elems(LayoutLayers) \ {"Metal1.pin", "Metal1.text"} : vl[l] = "indexed"}

InitPlugin ==
    /\ fs = PluginFs
    /\ search_path = PluginSearchPath
    /\ factory = None
    /\ stdout = <<>>
    /\ TableIdle
    /\ plugin = NewPlugin
    /\ \E tech \in PluginTechs,
          view_layers \in ViewLayerChoices :
          host = [tech |-> tech,
                  view_layers |-> view_layers,
                  active |-> FALSE,
                  shapes |-> [lyr \in 0..(Len(LayoutLayers) - 1) |-> [box |-> 0, text |-> 0]],
                  config |-> None,
                  deferred |-> <<>>,
                  dialog |-> FALSE,
                  transactions |-> 0,
                  placements |-> 0]

NextPlugin ==
    \/ Activated
    \/ Deactivated
    \/ MenuActivated
    \/ TechnologyApplied
    \/ NavigateToNextTextField
    \/ DockNavigateToNextTextField
    \/ SelectLayer
    \/ LeftClick
    \/ CloseDialog
    \/ ShowEditorOptions
    \/ CallMenu
    \/ EditFiles

SpecPlugin == InitPlugin /\ [][NextPlugin]_vars

\* the placement that has just run met a target layer name the view's
\* layer list does not contain
MetMissingLayer ==
    /\ host'.placements = host.placements + 1
    /\ LeftClick
    /\ ret'.kind = "returned"
    /\ ret'.caught # None
    /\ ret'.caught.what \in Elems(LayoutLayers)

\* C2: when a pin placement (commit_place_pin) meets a target pin or label
\* layer name that the view's layer list does not contain, the placement is
\* aborted as a whole: no box or text inserted by it remains on any target
\* layer, and the open transaction is rolled back rather than committed.
C2_AbortedAsWhole ==
    [][MetMissingLayer =>
          /\ host'.shapes = host.shapes
          /\ ret'.inserted = <<>>
          /\ ret'.closed_by = "rollback"]_vars

-----------------------------------------------------------------------------
(* Lookups in the registry                                                 *)

\* the positions of the registry at which tech_name is the key
Registered(self, tech_name) ==
    {i \in 1..Len(self.pdk_infos_by_tech_name) :
        self.pdk_infos_by_tech_name[i].key = tech_name}

\* C11: pdk_info(tech_name) is a pure map lookup: it returns the table
\* registered under exactly that name, returns None without an error for a
\* name that is not registered, and never changes the registry.
C11_PureLookup ==
    [][CallPdkInfo =>
          LET hits == Registered(factory, call'.tech_name)
          IN  /\ factory' = factory
              /\ stdout' = stdout
              /\ hits = {} => ret' = None
              /\ hits # {} =>
                    /\ Cardinality(hits) = 1
                    /\ ret'.kind = "PinPDKInfo"
                    /\ \A i \in hits :
                          ret'.pdk_info = factory.pdk_infos_by_tech_name[i].value]_vars

\* C11 witness: a registry of two tables was asked for the second one and
\* returned it
C11_Witness ==
    /\ call.op = "pdk_info"
    /\ factory # None
    /\ Len(factory.pdk_infos_by_tech_name) = 2
    /\ factory.pdk_infos_by_tech_name[2].key = call.tech_name
    /\ ret = [kind |-> "PinPDKInfo", pdk_info |-> factory.pdk_infos_by_tech_name[2].value]

\* a registry with a table was asked for a technology it does not hold and
\* returned None
C11_WitnessMiss ==
    /\ call.op = "pdk_info"
    /\ factory # None
    /\ factory.pdk_infos_by_tech_name # <<>>
    /\ Registered(factory, call.tech_name) = {}
    /\ ret = None

-----------------------------------------------------------------------------
(* The registry and its tables while the plugin runs                       *)

\* the tables a registry holds
TablesOf(self) ==
    {self.pdk_infos_by_tech_name[i].value : i \in 1..Len(self.pdk_infos_by_tech_name)}

\* an activation that went past the visibility test: the only step that
\* assigns self.pdk_info_factory
Reloaded ==
    /\ ~host.active
    /\ host'.active
    /\ plugin'.setupDock # None
    /\ plugin'.setupDock.visible
    /\ Activated

\* C12: tables and the registry are never changed after they were loaded:
\* across lookups, technology changes, placements and edits of the files the
\* registry and every table in it stay as they are, the table and the entry
\* the plugin holds are ones of the registry, and an activation puts a
\* registry in place that is the complete result of one construction over
\* the files as they are then.
C12_ReadOnlyTables ==
    [][/\ ~Reloaded => plugin'.pdk_info_factory = plugin.pdk_info_factory
       /\ Reloaded =>
             plugin'.pdk_info_factory.pdk_infos_by_tech_name
                 = PluginFactories[fs'].pdk_infos_by_tech_name
       /\ plugin'.pdk_info # None =>
             plugin'.pdk_info.pdk_info \in TablesOf(plugin'.pdk_info_factory)
       /\ plugin'.pin_layer_info # None =>
             \E T \in TablesOf(plugin'.pdk_info_factory) :
                plugin'.pin_layer_info.pli \in Elems(T.pin_layer_infos)]_vars

\* C12 witness: the files were edited, an activation has put the registry
\* of the edited files in place, and a placement has run on its table
C12_Witness ==
    /\ fs = PluginFsEdited
    /\ plugin.pdk_info_factory.pdk_infos_by_tech_name
          = PluginFactories[PluginFsEdited].pdk_infos_by_tech_name
    /\ plugin.pdk_info # None
    /\ plugin.pdk_info.pdk_info = Sg13g2PinsOnly
    /\ call.op = "commit_place_pin"
    /\ ret.kind = "returned"
    /\ ret.inserted # <<>>

\* the files were edited and a placement has run, with the registry loaded
\* before the edit still in place
C12_WitnessBeforeReload ==
    /\ fs = PluginFsEdited
    /\ plugin.pdk_info_factory.pdk_infos_by_tech_name
          = PluginFactory.pdk_infos_by_tech_name
    /\ plugin.pdk_info # None
    /\ plugin.pdk_info.pdk_info = Sky130Table
    /\ ret.kind = "returned"
    /\ ret.inserted # <<>>

-----------------------------------------------------------------------------
(* The plugin's table and the active technology                            *)

\* a step in which update_tech has run
UpdatedTech == Reloaded \/ TechnologyApplied

\* C13: after every update_tech (on activation and after each deferred
\* technology change) the plugin's table is the one the registry holds
\* under the name of the active technology, and None when there is no
\* technology or the registry has no table for it; it is never the table of
\* the technology that was active before.
C13_TableFollowsTechnology ==
    [][UpdatedTech =>
          LET hits == IF host'.tech = NoTechnology THEN {}
                      ELSE Registered(plugin'.pdk_info_factory, host'.tech)
          IN  /\ hits = {} => plugin'.pdk_info = None
              /\ hits # {} =>
                    /\ plugin'.pdk_info # None
                    /\ plugin'.pdk_info.pdk_info.tech_name = host'.tech
                    /\ \A i \in hits :
                          plugin'.pdk_info.pdk_info
                              = plugin'.pdk_info_factory.pdk_infos_by_tech_name[i].value]_vars

\* C13 witness: the entry resolved at activation is one of sg13g2, the
\* technology has since become sky130A, and the table is that of sky130A
C13_Witness ==
    /\ plugin.pin_layer_info # None
    /\ plugin.pin_layer_info.pli.short_layer_name = "Metal1"
    /\ host.tech = "sky130A"
    /\ host.deferred = <<>>
    /\ plugin.pdk_info # None
    /\ plugin.pdk_info.pdk_info = Sky130Table

\* the technology has changed from sg13g2 to one the registry has no table
\* for, and the plugin holds no table
C13_WitnessNoTable ==
    /\ plugin.pin_layer_info # None
    /\ plugin.pin_layer_info.pli.short_layer_name = "Metal1"
    /\ host.tech = "sky130A"
    /\ Registered(plugin.pdk_info_factory, host.tech) = {}
    /\ host.deferred = <<>>
    /\ host.active
    /\ plugin.pdk_info = None

-----------------------------------------------------------------------------
(* Left clicks                                                             *)

\* a left click while the dock's combo box shows 'None selected'
ClickedWithNoneSelected ==
    /\ ~host.dialog
    /\ host.active
    /\ plugin.setupDock # None
    /\ plugin.setupDock.current_text = NoneSelected
    /\ LeftClick

\* C14: when no pin layer is selected (the current layer did not resolve,
\* no layer was current, or the technology has no table) a left click does
\* not fail and places nothing: commit_place_pin prompts the user and
\* returns without opening a transaction, inserting a box or text, or saving
\* the preferences.
C14_PromptsWhenNoneSelected ==
    [][/\ ClickedWithNoneSelected =>
             /\ host'.dialog
             /\ ret'.kind = "dialog"
             /\ ret'.view_calls = <<>>
             /\ host'.shapes = host.shapes
             /\ host'.config = host.config
             /\ plugin' = plugin
             /\ stdout' = stdout
       /\ host.dialog =>
             /\ ret'.kind = IF host'.dialog THEN "dialog" ELSE "prompted"
             /\ ret'.view_calls = <<>>
             /\ host'.shapes = host.shapes
             /\ host'.config = host.config
             /\ plugin'.pin_layer_info = plugin.pin_layer_info
             /\ plugin'.setupDock.current_text = NoneSelected
             /\ stdout' = stdout
       /\ (Reloaded /\ plugin'.pin_layer_info = None) =>
             plugin'.setupDock.current_text = NoneSelected
       /\ (UpdatedTech /\ plugin'.pdk_info = None /\ plugin'.setupDock # None) =>
             plugin'.setupDock.current_text = NoneSelected]_vars

\* C14 witness: the technology has a table, no entry is selected, and a
\* click has prompted
C14_Witness ==
    /\ call.op = "commit_place_pin"
    /\ ret.kind = "prompted"
    /\ plugin.pdk_info # None
    /\ plugin.setupDock.current_text = NoneSelected
    /\ Len(plugin.setupDock.items) > 1

\* the technology has no table, and a click has prompted
C14_WitnessNoTable ==
    /\ call.op = "commit_place_pin"
    /\ ret.kind = "prompted"
    /\ host.active
    /\ plugin.pdk_info = None
    /\ plugin.setupDock.items = <<NoneSelected>>

\* a left click whose placement ran to its end without an exception
PlacedPin ==
    /\ host'.placements = host.placements + 1
    /\ LeftClick
    /\ ret'.kind = "returned"
    /\ ret'.caught = None

\* the number of shapes of one kind a step has added to a layer of the layout
Added(lyr, shape) == host'.shapes[lyr][shape] - host.shapes[lyr][shape]

\* C15: a successful placement for the entry p resolved for the selected
\* name inserts exactly one
\* box on every layer of the groups p.pin_layers names, exactly one text on
\* every layer of the groups p.label_layers names, and nothing on any other
\* layer, in particular nothing on layers only p.related_layers reach.
C15_OneShapePerTargetLayer ==
    [][PlacedPin =>
          LET T == plugin.pdk_info.pdk_info
              p == plugin'.pin_layer_info.pli
              pins   == LayersIn(T, Elems(p.pin_layers))
              labels == LayersIn(T, Elems(p.label_layers))
          IN  \A i \in 1..Len(LayoutLayers) :
                 /\ Added(i - 1, "box") = IF LayoutLayers[i] \in pins THEN 1 ELSE 0
                 /\ Added(i - 1, "text") = IF LayoutLayers[i] \in labels THEN 1 ELSE 0]_vars

\* C15 witness: a placement for an entry with a related-only layer has
\* succeeded: one box, one text, nothing on the related-only layer
C15_Witness ==
    /\ call.op = "commit_place_pin"
    /\ ret.kind = "returned"
    /\ ret.caught = None
    /\ plugin.pin_layer_info # None
    /\ plugin.pin_layer_info.pli.related_layers # <<>>
    /\ Len(ret.inserted) = 2
    /\ host.shapes[LayoutIndex("Metal1.pin")].box = 1
    /\ host.shapes[LayoutIndex("Metal1.text")].text = 1
    /\ host.shapes[LayoutIndex("Metal1.drawing")] = [box |-> 0, text |-> 0]

\* a placement for an entry whose two pin groups share a layer has
\* succeeded: one box on each of the two layers
C15_WitnessSharedLayer ==
    /\ call.op = "commit_place_pin"
    /\ ret.kind = "returned"
    /\ ret.caught = None
    /\ plugin.pin_layer_info # None
    /\ plugin.pin_layer_info.pli.pin_layers = <<"Metal1.PinLayers", "Metal1.TopPinLayers">>
    /\ Len(ret.inserted) = 2
    /\ host.shapes[LayoutIndex("Metal1.pin")].box = 1
    /\ host.shapes[LayoutIndex("Metal1.drawing")].box = 1

\* C16: every transaction commit_place_pin opens is closed exactly once
\* before the call returns, whether the insertions succeed or raise: over
\* any sequence of clicks no transaction is left open and none is opened
\* while another is open, an exception raised inside the placement is
\* caught and printed, and a call that ends with an exception has not
\* opened a transaction.
C16_TransactionClosedOnce ==
    [][/\ host.transactions = 0
       /\ host'.transactions = 0
       /\ LeftClick =>
             /\ ret'.view_calls \in {<<>>, <<"transaction", "commit">>}
             /\ ret'.view_calls # <<>> =>
                   /\ ret'.kind = "returned"
                   /\ ret'.caught # None =>
                         stdout' = Append(stdout, [caught |-> ret'.caught.what])
             /\ ret'.kind = "returned" => ret'.view_calls = <<"transaction", "commit">>
             /\ ret'.kind = "propagated" =>
                   /\ ret'.view_calls = <<>>
                   /\ host'.shapes = host.shapes]_vars

\* C16 witness: a click raised on a missing layer after an insertion and
\* was caught, and so did the click after it; each opened a transaction and
\* closed it, and none is open
C16_Witness ==
    /\ call.op = "commit_place_pin"
    /\ host.placements = 2
    /\ Len(stdout) = 2
    /\ host.shapes[LayoutIndex("Metal1.pin")].box = 2
    /\ ret.kind = "returned"
    /\ ret.caught # None
    /\ ret.inserted # <<>>
    /\ ret.view_calls = <<"transaction", "commit">>
    /\ host.transactions = 0

\* a click was caught raising, and the click after it has placed its pin
\* in a transaction of its own
C16_WitnessAfterFailure ==
    /\ call.op = "commit_place_pin"
    /\ host.placements = 2
    /\ Len(stdout) = 1
    /\ ret.kind = "returned"
    /\ ret.caught = None
    /\ ret.inserted # <<>>
    /\ ret.view_calls = <<"transaction", "commit">>
    /\ host.transactions = 0

\* a click has ended with an exception before a transaction was opened: the
\* tool was activated while its view was hidden
C16_WitnessPropagated ==
    /\ call.op = "commit_place_pin"
    /\ ret.kind = "propagated"
    /\ ret.view_calls = <<>>

\* the texts a click has inserted
TextsAdded == {i \in 1..Len(LayoutLayers) : Added(i - 1, "text") > 0}

\* C17: commit_place_pin saves the preferences only after a label has been
\* inserted, hence only if every pin layer of that click got its box: a
\* click that fails on a pin layer or on the first label layer, or whose
\* entry expands to no label layer, leaves the saved preferences as they
\* were.
C17_SavedOnlyAfterLabel ==
    [][LeftClick =>
          /\ TextsAdded = {} => host'.config = host.config
          /\ TextsAdded # {} =>
                /\ host'.config = [kind |-> "PinToolConfig",
                                   pin_label |-> plugin.setupDock.pin_value]
                /\ \A l \in LayersIn(plugin.pdk_info.pdk_info,
                                     Elems(plugin'.pin_layer_info.pli.pin_layers)) :
                      Added(LayoutIndex(l), "box") = 1]_vars

\* C17 witness: a click drew its box and failed on the first label layer,
\* and no preferences have been saved
C17_Witness ==
    /\ call.op = "commit_place_pin"
    /\ ret.kind = "returned"
    /\ ret.caught # None
    /\ ret.caught.what = "Metal1.text"
    /\ ret.inserted # <<>>
    /\ host.config = None

\* a click for an entry without label layers has succeeded, and no
\* preferences have been saved
C17_WitnessNoLabelLayer ==
    /\ call.op = "commit_place_pin"
    /\ ret.kind = "returned"
    /\ ret.caught = None
    /\ ret.inserted # <<>>
    /\ host.config = None

\* a click has failed on a pin layer, and no preferences have been saved
C17_WitnessPinLayerMissing ==
    /\ call.op = "commit_place_pin"
    /\ ret.kind = "returned"
    /\ ret.caught # None
    /\ ret.caught.what = "Metal1.pin"
    /\ host.config = None

\* a click has inserted its label and saved the preferences
C17_WitnessSaved ==
    /\ call.op = "commit_place_pin"
    /\ ret.kind = "returned"
    /\ ret.caught = None
    /\ host.placements = 1
    /\ host.config = [kind |-> "PinToolConfig", pin_label |-> DefaultPinLabel]

=============================================================================
